---- MODULE Spec2Model ----
(***************************************************************************)
(* Turn cycle and turret control of the black-earth artillery game         *)
(* (src/game/blackearth.py, src/game/tank.py).                             *)
(*                                                                         *)
(* The state is the BlackEarthGame window object: its tank list, the       *)
(* itertools.cycle iterator over that list, the active tank, and each      *)
(* tank's Turret (angle and speed), the bullet list and the physics        *)
(* engine's sprites.  One action per handler the arcade                    *)
(* event loop calls: setup, on_key_press, on_key_release, on_update,       *)
(* on_draw, and one for add_bullet, which nothing in these two files       *)
(* calls.                                                                  *)
(*                                                                         *)
(* The call tank.Tank(...) in create_tanks (blackearth.py:135-140) passes  *)
(* the keywords name, parent, position, color; Tank.__init__ (tank.py:43)  *)
(* declares name, position, color.  The keywords of that call are an       *)
(* input of setup here: as written (the call does not bind and setup       *)
(* raises TypeError), or the parameters Tank.__init__ declares (the game   *)
(* runs).                                                                  *)
(***************************************************************************)
EXTENDS Integers, Sequences, FiniteSets

\* ---- program constants (tank.py:16-21) ----
TANK_STARTING_ANGLE_DEG == 45
TURRET_ANGLE_MAX == 180
TURRET_ANGLE_MIN == 0
TURRET_SPEED_STEP == 2

\* ---- bounds of the model ----
\* Spec: largest num_tanks passed to setup
MaxTanks == 3
\* Spec: on_update calls explored in one game
MaxFrames == 5
\* SpecAim: largest num_tanks passed to setup
AimTanks == 1
\* SpecAim: on_update calls explored between two key events
MaxRun == 60
\* SpecFire: largest num_tanks passed to setup
FireTanks == 2
\* SpecFire: on_update calls explored in one game
FireFrames == 3
\* SpecFire: bullet sprites passed to add_bullet in one game
MaxBullets == 2

\* the bullet sprites, and the values of power add_bullet is called with
Bullets == {<<"bullet", i>> : i \in 1..MaxBullets}
Powers == {50, 100}

\* arcade.key values the handlers compare against, and one key ("UP") that
\* no handler names
Keys == {"LEFT", "RIGHT", "SPACE", "ESCAPE", "UP"}

VARIABLES
    phase,       \* "constructed" (after __init__), "running" (after setup),
                 \* "exited" (exit() called), "crashed" (setup raised)
    tanksList,   \* self.tanksList: sequence of Tank objects
    tanksCycle,  \* self.tanksCycle: position of the itertools.cycle iterator
    activeTank,  \* self.activeTank: index into tanksList of the referenced Tank (0: unset)
    lastEvent,   \* history: the handler call just processed, the tank active
                 \* when it arrived and the tanks it was forwarded to
    runKey,      \* history: the last key event processed (as lastEvent)
    runStart,    \* history: the active turret's angle after the last key event
    runLen,      \* history: on_update calls since the last key event
    turnLog,     \* history: the tanks that have been active, latest last
                 \* (the last Len(tanksList)+1 of them)
    aimAtTurnEnd, \* history: per tank, its angle when its turn last ended
                 \* (NoAim while it is the active tank)
    frames,      \* history: on_update calls since setup (counted up to MaxFrames)
    bullets_list,   \* self.bullets_list: None, or the SpriteList as a sequence of bullets
    physics_engine, \* self.physics_engine: None, or the engine's sprites and handlers
    error,       \* the exception that ended setup or a handler ("none": none)
    detonated,   \* the bullets whose detonate() has been called
    hud,         \* the texts draw_hud has drawn last (None: none)
    setupCall,   \* history: the arguments of the setup call
    callTrace,   \* history: the calls the last handler made, in order
    held,        \* history: the direction keys pressed and not released since
    reported,    \* history: the bullets the last physics step reported a
                 \* collision with the ground for
    added        \* history: the bullets add_bullet has been called with

vars == <<phase, tanksList, tanksCycle, activeTank, lastEvent, runKey,
          runStart, runLen, turnLog, aimAtTurnEnd, frames, bullets_list,
          physics_engine, error, detonated, hud, setupCall, callTrace,
          held, reported, added>>

\* ---------------------------------------------------------------------
\* tank.py
\* ---------------------------------------------------------------------

\* Turret.__init__
Turret(name) ==
    [turretname |-> name,
     turretAngleDeg |-> TANK_STARTING_ANGLE_DEG,
     turretSpeed |-> 0]

\* Tank.__init__
Tank(name) == [name |-> name, turret_obj |-> Turret(name)]

\* the parameters Tank.__init__ declares besides self
TankInitParams == {"name", "position", "color"}

\* the attributes Tank.__init__ assigns
TankAttributes == {"name", "size", "position", "color", "turret_obj"}

\* Turret.on_key_press stopping the turret on any other key
Turret_on_key_press_ElseStop(t, key) ==
    IF key = "RIGHT" THEN [t EXCEPT !.turretSpeed = -TURRET_SPEED_STEP]
    ELSE IF key = "LEFT" THEN [t EXCEPT !.turretSpeed = TURRET_SPEED_STEP]
    ELSE [t EXCEPT !.turretSpeed = 0]

\* Turret.on_key_press
Turret_on_key_press(t, key) ==
    IF key = "RIGHT" THEN [t EXCEPT !.turretSpeed = -TURRET_SPEED_STEP]
    ELSE IF key = "LEFT" THEN [t EXCEPT !.turretSpeed = TURRET_SPEED_STEP]
    ELSE t

\* Turret.on_key_release without the SPACE case
Turret_on_key_release_NoFire(t, key) ==
    IF key \in {"LEFT", "RIGHT"} THEN [t EXCEPT !.turretSpeed = 0]
    ELSE t

\* Turret.on_key_release stopping only the rotation the released key began
Turret_on_key_release_Matching(t, key) ==
    IF \/ key = "SPACE"
       \/ key = "LEFT" /\ t.turretSpeed > 0
       \/ key = "RIGHT" /\ t.turretSpeed < 0
    THEN [t EXCEPT !.turretSpeed = 0]
    ELSE t

\* Turret.on_key_release
Turret_on_key_release(t, key) ==
    IF key \in {"LEFT", "RIGHT", "SPACE"} THEN [t EXCEPT !.turretSpeed = 0]
    ELSE t

\* Clamp without the upper bound
Clamp_NoMax(a) ==
    IF a < TURRET_ANGLE_MIN THEN TURRET_ANGLE_MIN ELSE a

\* the bounding of Turret.on_update (tank.py:153-156)
Clamp(a) ==
    IF a > TURRET_ANGLE_MAX THEN TURRET_ANGLE_MAX
    ELSE IF a < TURRET_ANGLE_MIN THEN TURRET_ANGLE_MIN
    ELSE a

\* Turret.on_update bounding the angle before the speed is added
Turret_on_update_BoundFirst(t) ==
    [t EXCEPT !.turretAngleDeg = Clamp(t.turretAngleDeg) + t.turretSpeed]

\* Turret.on_update
Turret_on_update(t) ==
    LET moved == IF t.turretSpeed # 0
                 THEN t.turretAngleDeg + t.turretSpeed
                 ELSE t.turretAngleDeg
    IN [t EXCEPT !.turretAngleDeg = Clamp(moved)]

\* Tank.on_key_press, Tank.on_key_release, Tank.on_update: pure delegation
Tank_on_key_press(tk, key) ==
    [tk EXCEPT !.turret_obj = Turret_on_key_press(tk.turret_obj, key)]

\* Tank.on_key_release delegating the direction keys only
Tank_on_key_release_DropsFire(tk, key) ==
    IF key = "SPACE" THEN tk
    ELSE [tk EXCEPT !.turret_obj = Turret_on_key_release(tk.turret_obj, key)]

Tank_on_key_release(tk, key) ==
    [tk EXCEPT !.turret_obj = Turret_on_key_release(tk.turret_obj, key)]

Tank_on_update(tk) ==
    [tk EXCEPT !.turret_obj = Turret_on_update(tk.turret_obj)]

\* ---------------------------------------------------------------------
\* blackearth.py
\* ---------------------------------------------------------------------

\* itertools.cycle(self.tanksList): the iterator's state is the position of
\* the element the next call of next() yields
NewCycle == 1

\* a cycle that stays on the last element instead of starting over
CycleNext_NoWrap(pos, n) == <<pos, IF pos >= n THEN n ELSE pos + 1>>

\* next(self.tanksCycle) on a list of n >= 1 tanks:
\* <<element yielded, new position>>
CycleNext(pos, n) == <<pos, (pos % n) + 1>>

\* the value of an attribute not assigned yet
None == <<"None">>

\* The window object.  forwarded is the set of tanks whose handler the
\* current Game handler has called, trace the calls it has made.
Self ==
    [phase |-> phase, tanksList |-> tanksList, tanksCycle |-> tanksCycle,
     activeTank |-> activeTank, bullets_list |-> bullets_list,
     physics_engine |-> physics_engine, error |-> error,
     detonated |-> detonated, hud |-> hud,
     forwarded |-> {}, trace |-> <<>>]

\* a handler raises: the exception leaves arcade.run() (or main) and the
\* process ends
Raise(self, exc) == [self EXCEPT !.phase = "crashed", !.error = exc]

\* the keywords of the call tank.Tank(...) in create_tanks
CreateTanksKeywords == {"name", "parent", "position", "color"}

\* the call tank.Tank(**keywords) binds: no keyword Tank.__init__ does not
\* declare, none of its parameters (none has a default) missing
Binds(keywords) == keywords = TankInitParams

\* create_tanks taking the first tank only if there is one
create_tanks_NoRaise(self, num_tanks, keywords) ==
    LET lst == [n \in 1..num_tanks |-> Tank(<<"Player", n>>)]
    IN IF num_tanks >= 1 /\ ~Binds(keywords)
       THEN Raise([self EXCEPT !.tanksList = <<>>], "TypeError")
       ELSE IF num_tanks <= 0
       THEN [self EXCEPT !.tanksList = <<>>, !.tanksCycle = NewCycle]
       ELSE [self EXCEPT !.tanksList = lst,
                         !.activeTank = CycleNext(NewCycle, num_tanks)[1],
                         !.tanksCycle = CycleNext(NewCycle, num_tanks)[2]]

\* BlackEarthGame.create_tanks, the Tank call made with the given keywords.
\* A call that does not bind raises TypeError in the first pass of the
\* loop.  With num_tanks = 0 the list is empty and next() of the cycle
\* raises StopIteration before activeTank is assigned.
create_tanks(self, num_tanks, keywords) ==
    LET lst == [n \in 1..num_tanks |-> Tank(<<"Player", n>>)]
    IN IF num_tanks >= 1 /\ ~Binds(keywords)
       THEN Raise([self EXCEPT !.tanksList = <<>>], "TypeError")
       ELSE IF num_tanks <= 0
       THEN Raise([self EXCEPT !.tanksList = <<>>, !.tanksCycle = NewCycle],
                  "StopIteration")
       ELSE [self EXCEPT !.tanksList = lst,
                         !.activeTank = CycleNext(NewCycle, num_tanks)[1],
                         !.tanksCycle = CycleNext(NewCycle, num_tanks)[2]]

\* the ground sprite of create_environment
Ground == <<"ground", 0>>

\* arcade.PymunkPhysicsEngine(...) of setup_physics_engine
PymunkPhysicsEngine == [sprites |-> {}, handlers |-> {}]

\* physics_engine.add_sprite(sprite, collision_type=...)
add_sprite(pe, sprite, collision_type) ==
    [pe EXCEPT !.sprites = @ \cup {[sprite |-> sprite,
                                    collision_type |-> collision_type,
                                    impulse |-> 0]}]

\* physics_engine.apply_impulse(sprite, (power, 0))
apply_impulse(pe, sprite, power) ==
    [pe EXCEPT !.sprites = {IF r.sprite = sprite
                            THEN [r EXCEPT !.impulse = power]
                            ELSE r : r \in @}]

\* BlackEarthGame.setup_physics_collisions: the ground is added and the
\* bullet/ground handler registered
setup_physics_collisions(self) ==
    [self EXCEPT
       !.physics_engine =
          [add_sprite(@, Ground, "ground")
             EXCEPT !.handlers = @ \cup {<<"bullet", "ground">>}]]

\* BlackEarthGame.setup: create_tanks, then the ground, the bullet list and
\* the physics engine
setup(self, num_tanks, keywords) ==
    LET s1 == create_tanks(self, num_tanks, keywords)
    IN IF s1.phase = "crashed" THEN s1
       ELSE setup_physics_collisions(
              [s1 EXCEPT !.phase = "running",
                         !.bullets_list = <<>>,
                         !.physics_engine = PymunkPhysicsEngine])

\* on_key_press forwarding the press to every tank
Game_on_key_press_AllTanks(self, key) ==
    [self EXCEPT
       !.tanksList = [i \in 1..Len(self.tanksList) |->
                        Tank_on_key_press(self.tanksList[i], key)],
       !.forwarded = 1..Len(self.tanksList)]

\* BlackEarthGame.on_key_press
Game_on_key_press(self, key) ==
    [self EXCEPT
       !.tanksList[self.activeTank] = Tank_on_key_press(@, key),
       !.forwarded = {self.activeTank}]

\* on_key_release without the quit case
Game_on_key_release_NoQuit(self, key) ==
    LET s1 == [self EXCEPT
                 !.tanksList[self.activeTank] = Tank_on_key_release(@, key),
                 !.forwarded = {self.activeTank}]
        nx == CycleNext(self.tanksCycle, Len(self.tanksList))
    IN IF key = "SPACE"
       THEN [s1 EXCEPT !.activeTank = nx[1], !.tanksCycle = nx[2]]
       ELSE s1

\* on_key_release passing the turn before it forwards the release
Game_on_key_release_TurnFirst(self, key) ==
    IF key = "ESCAPE"
    THEN [self EXCEPT !.phase = "exited"]
    ELSE LET nx == CycleNext(self.tanksCycle, Len(self.tanksList))
             s1 == IF key = "SPACE"
                   THEN [self EXCEPT !.activeTank = nx[1], !.tanksCycle = nx[2]]
                   ELSE self
         IN [s1 EXCEPT
               !.tanksList[s1.activeTank] = Tank_on_key_release(@, key),
               !.forwarded = {s1.activeTank}]

\* BlackEarthGame.on_key_release
Game_on_key_release(self, key) ==
    IF key = "ESCAPE"
    THEN [self EXCEPT !.phase = "exited"]
    ELSE LET s1 == [self EXCEPT
                      !.tanksList[self.activeTank] = Tank_on_key_release(@, key),
                      !.forwarded = {self.activeTank}]
             nx == CycleNext(self.tanksCycle, Len(self.tanksList))
         IN IF key = "SPACE"
            THEN [s1 EXCEPT !.activeTank = nx[1], !.tanksCycle = nx[2]]
            ELSE s1

\* bullet_sprite.remove_from_sprite_lists(): the sprite leaves every
\* SpriteList it is in and every physics engine it is registered with
remove_from_sprite_lists(self, b) ==
    [self EXCEPT
       !.bullets_list = SelectSeq(@, LAMBDA x : x # b),
       !.physics_engine.sprites = {r \in @ : r.sprite # b}]

\* the handler calling detonate() only
bullet_ground_handler_NoRemove(self, b) ==
    [self EXCEPT !.detonated = @ \cup {b}]

\* the handler emptying the bullet list and the engine of bullets
bullet_ground_handler_ClearsAll(self, b) ==
    [self EXCEPT
       !.detonated = @ \cup {b},
       !.bullets_list = <<>>,
       !.physics_engine.sprites = {r \in @ : r.collision_type # "bullet"}]

\* bullet_ground_handler of setup_physics_collisions
bullet_ground_handler(self, b) ==
    remove_from_sprite_lists([self EXCEPT !.detonated = @ \cup {b}], b)

\* physics_engine.step(): the engine reports a bullet/ground collision for
\* each bullet of collided, and the registered post-handler runs for each
RECURSIVE step(_, _)
step(self, collided) ==
    IF collided = {} \/ <<"bullet", "ground">> \notin self.physics_engine.handlers
    THEN self
    ELSE LET b == CHOOSE x \in collided : TRUE
         IN step(bullet_ground_handler(self, b), collided \ {b})

\* on_update updating every tank
Game_on_update_AllTanks(self, collided) ==
    step([self EXCEPT
            !.tanksList = [i \in 1..Len(self.tanksList) |->
                             Tank_on_update(self.tanksList[i])],
            !.forwarded = 1..Len(self.tanksList),
            !.trace = <<"activeTank.on_update", "physics_engine.step">>],
         collided)

\* on_update that also passes the turn
Game_on_update_PassesTurn(self, collided) ==
    LET nx == CycleNext(self.tanksCycle, Len(self.tanksList))
    IN step([self EXCEPT
               !.tanksList[self.activeTank] = Tank_on_update(@),
               !.forwarded = {self.activeTank},
               !.trace = <<"activeTank.on_update", "physics_engine.step">>,
               !.activeTank = nx[1], !.tanksCycle = nx[2]],
            collided)

\* on_update stepping the physics engine before updating the active tank
Game_on_update_StepFirst(self, collided) ==
    LET s1 == step([self EXCEPT !.trace = <<"physics_engine.step">>], collided)
    IN [s1 EXCEPT !.tanksList[self.activeTank] = Tank_on_update(@),
                  !.forwarded = {self.activeTank},
                  !.trace = Append(@, "activeTank.on_update")]

\* BlackEarthGame.on_update: the active tank updates, then the physics
\* engine steps
Game_on_update(self, collided) ==
    LET s1 == [self EXCEPT
                 !.tanksList[self.activeTank] = Tank_on_update(@),
                 !.forwarded = {self.activeTank},
                 !.trace = <<"activeTank.on_update">>]
    IN step([s1 EXCEPT !.trace = Append(@, "physics_engine.step")], collided)

\* BlackEarthGame.add_bullet
add_bullet(self, bullet, power) ==
    [self EXCEPT
       !.bullets_list = Append(@, bullet),
       !.physics_engine =
          apply_impulse(add_sprite(@, bullet, "bullet"), bullet, power),
       !.trace = <<"bullets_list.append", "physics_engine.add_sprite",
                   "physics_engine.apply_impulse">>]

\* BlackEarthGame.draw_hud: the attributes it reads of self.activeTank, in
\* the order of the four draw_text calls
HudReads == <<"turretAngleDeg", "power", "name", "activeWeapon">>

\* BlackEarthGame.draw_hud.  Reading an attribute the Tank object does not
\* have raises AttributeError before the text is drawn.
draw_hud(self) ==
    LET missing == {j \in 1..Len(HudReads) : HudReads[j] \notin TankAttributes}
        first == CHOOSE j \in missing : \A k \in missing : j <= k
    IN IF missing # {}
       THEN Raise([self EXCEPT
                     !.hud = [j \in 1..(first - 1) |->
                                <<HudReads[j], self.tanksList[self.activeTank][HudReads[j]]>>]],
                  "AttributeError")
       ELSE [self EXCEPT
               !.hud = [j \in 1..Len(HudReads) |->
                          <<HudReads[j], self.tanksList[self.activeTank][HudReads[j]]>>]]

\* ---------------------------------------------------------------------
\* the event loop
\* ---------------------------------------------------------------------

AngleIn(lst, i) == lst[i].turret_obj.turretAngleDeg
SpeedIn(lst, i) == lst[i].turret_obj.turretSpeed
Angle(i) == AngleIn(tanksList, i)
Speed(i) == SpeedIn(tanksList, i)

Event(op, key, active, forwarded) ==
    [op |-> op, key |-> key, active |-> active, forwarded |-> forwarded]

NoEvent == Event("none", "none", 0, {})

NoAim == -1

DirectionKeys == {"LEFT", "RIGHT"}

\* the last k elements of a sequence
LastK(seq, k) ==
    IF Len(seq) <= k THEN seq ELSE SubSeq(seq, Len(seq) - k + 1, Len(seq))

\* the window object after a handler returned
Becomes(s) ==
    /\ phase' = s.phase
    /\ tanksList' = s.tanksList
    /\ tanksCycle' = s.tanksCycle
    /\ activeTank' = s.activeTank
    /\ bullets_list' = s.bullets_list
    /\ physics_engine' = s.physics_engine
    /\ error' = s.error
    /\ detonated' = s.detonated
    /\ hud' = s.hud
    /\ callTrace' = s.trace

\* the state after arcade.Window.__init__ and BlackEarthGame.__init__
Init ==
    /\ phase = "constructed"
    /\ tanksList = <<>>
    /\ tanksCycle = 0
    /\ activeTank = 0
    /\ lastEvent = NoEvent
    /\ runKey = NoEvent
    /\ runStart = 0
    /\ runLen = 0
    /\ turnLog = <<>>
    /\ aimAtTurnEnd = <<>>
    /\ frames = 0
    /\ bullets_list = None
    /\ physics_engine = None
    /\ error = "none"
    /\ detonated = {}
    /\ hud = None
    /\ setupCall = None
    /\ callTrace = <<>>
    /\ held = {}
    /\ reported = {}
    /\ added = {}

\* main() calls window.setup(num_tanks)
Setup(num_tanks, keywords) ==
    /\ phase = "constructed"
    /\ Becomes(setup(Self, num_tanks, keywords))
    /\ setupCall' = [num_tanks |-> num_tanks, keywords |-> keywords]
    /\ UNCHANGED <<held, reported, added>>
    /\ lastEvent' = Event("setup", "none", 0, {})
    /\ runKey' = lastEvent'
    /\ runStart' = IF activeTank' \in 1..Len(tanksList')
                   THEN AngleIn(tanksList', activeTank') ELSE 0
    /\ runLen' = 0
    /\ turnLog' = IF phase' = "running" THEN <<activeTank'>> ELSE <<>>
    /\ aimAtTurnEnd' = [i \in 1..Len(tanksList') |->
                          IF i = activeTank' THEN NoAim ELSE AngleIn(tanksList', i)]
    /\ frames' = 0

\* the event loop delivers a key press
OnKeyPress(key) ==
    /\ phase = "running"
    /\ LET s == Game_on_key_press(Self, key)
       IN /\ Becomes(s)
          /\ lastEvent' = Event("on_key_press", key, activeTank, s.forwarded)
    /\ runKey' = lastEvent'
    /\ runStart' = AngleIn(tanksList', activeTank')
    /\ runLen' = 0
    /\ held' = IF key \in DirectionKeys THEN held \cup {key} ELSE held
    /\ reported' = {}
    /\ UNCHANGED <<turnLog, aimAtTurnEnd, frames, setupCall, added>>

\* the event loop delivers a key release
OnKeyRelease(key) ==
    /\ phase = "running"
    /\ LET s == Game_on_key_release(Self, key)
       IN /\ Becomes(s)
          /\ lastEvent' = Event("on_key_release", key, activeTank, s.forwarded)
    /\ runKey' = lastEvent'
    /\ runStart' = AngleIn(tanksList', activeTank')
    /\ runLen' = 0
    /\ IF key = "SPACE"
       THEN /\ turnLog' = LastK(Append(turnLog, activeTank'), Len(tanksList) + 1)
            /\ aimAtTurnEnd' = [i \in 1..Len(tanksList) |->
                                  IF i = activeTank' THEN NoAim
                                  ELSE IF i = activeTank THEN AngleIn(tanksList', i)
                                  ELSE aimAtTurnEnd[i]]
       ELSE UNCHANGED <<turnLog, aimAtTurnEnd>>
    /\ held' = held \ {key}
    /\ reported' = {}
    /\ UNCHANGED <<frames, setupCall, added>>

\* the event loop calls on_update for a frame; the physics engine reports
\* a collision with the ground for the bullets of collided
OnUpdate(collided) ==
    /\ phase = "running"
    /\ LET s == Game_on_update(Self, collided)
       IN /\ Becomes(s)
          /\ lastEvent' = Event("on_update", "none", activeTank, s.forwarded)
    /\ runLen' = IF runLen < MaxRun THEN runLen + 1 ELSE runLen
    /\ frames' = IF frames < MaxFrames THEN frames + 1 ELSE frames
    /\ reported' = collided
    /\ UNCHANGED <<runKey, runStart, turnLog, aimAtTurnEnd, setupCall, held, added>>

\* the bullets the physics engine simulates
Simulated == {r.sprite : r \in {x \in physics_engine.sprites : x.collision_type = "bullet"}}

\* add_bullet is called with a new bullet sprite
AddBullet(bullet, power) ==
    /\ phase = "running"
    /\ bullet \notin added
    /\ LET s == add_bullet(Self, bullet, power)
       IN /\ Becomes(s)
          /\ lastEvent' = Event("add_bullet", "none", activeTank, s.forwarded)
    /\ added' = added \cup {bullet}
    /\ reported' = {}
    /\ UNCHANGED <<runKey, runStart, runLen, turnLog, aimAtTurnEnd, frames,
                   setupCall, held>>

\* the event loop calls on_draw; of the render calls it makes, draw_hud is
\* the one modelled
OnDraw ==
    /\ phase = "running"
    /\ LET s == draw_hud(Self)
       IN /\ Becomes(s)
          /\ lastEvent' = Event("on_draw", "none", activeTank, s.forwarded)
    /\ reported' = {}
    /\ UNCHANGED <<runKey, runStart, runLen, turnLog, aimAtTurnEnd, frames,
                   setupCall, held, added>>

\* the keywords the Tank call of create_tanks is made with: as written,
\* and the parameters Tank.__init__ declares
KeywordChoices == {CreateTanksKeywords, TankInitParams}

\* The game: setup with any tank count up to MaxTanks, then key events on
\* any key and at most MaxFrames frames
Next ==
    \/ \E n \in 0..MaxTanks, kw \in KeywordChoices : Setup(n, kw)
    \/ \E key \in Keys : OnKeyPress(key)
    \/ \E key \in Keys : OnKeyRelease(key)
    \/ (frames < MaxFrames /\ OnUpdate({}))

Spec == Init /\ [][Next]_vars

\* Aiming: games of up to AimTanks tanks played for any number of frames,
\* with at most MaxRun frames between two key events
NextAim ==
    \/ \E n \in 1..AimTanks : Setup(n, TankInitParams)
    \/ \E key \in Keys : OnKeyPress(key)
    \/ \E key \in Keys : OnKeyRelease(key)
    \/ (runLen < MaxRun /\ OnUpdate({}))

SpecAim == Init /\ [][NextAim]_vars

\* Firing and drawing: games of up to FireTanks tanks and FireFrames
\* frames, in which add_bullet is called with up to MaxBullets bullets, the
\* physics engine reports collisions and the window is drawn
NextFire ==
    \/ \E n \in 0..FireTanks, kw \in KeywordChoices : Setup(n, kw)
    \/ \E key \in Keys : OnKeyPress(key)
    \/ \E key \in Keys : OnKeyRelease(key)
    \/ (/\ phase = "running"
        /\ frames < FireFrames
        /\ \E collided \in SUBSET Simulated : OnUpdate(collided))
    \/ \E b \in Bullets, power \in Powers : AddBullet(b, power)
    \/ OnDraw

SpecFire == Init /\ [][NextFire]_vars

\* ---------------------------------------------------------------------
\* properties
\* ---------------------------------------------------------------------

Min(a, b) == IF a < b THEN a ELSE b

Started == phase \in {"running", "exited"}

Tanks == 1..Len(tanksList)

\* the tank after tank i in insertion order, the first after the last
Successor(i) == IF i = Len(tanksList) THEN 1 ELSE i + 1

KeyOps == {"on_key_press", "on_key_release"}

FireRelease(e) == e.op = "on_key_release" /\ e.key = "SPACE"

\* C1: once the game is set up, every turret's angle is within
\* [TURRET_ANGLE_MIN, TURRET_ANGLE_MAX] in every state, whatever keys were
\* pressed or released, turns passed and frames updated.
C1_AngleInRange ==
    Started => \A i \in Tanks : Angle(i) \in TURRET_ANGLE_MIN..TURRET_ANGLE_MAX

\* an update has just bounded the angle: the turret was rotating upwards and
\* the unbounded sum would have passed TURRET_ANGLE_MAX
C1_Witness ==
    /\ phase = "running"
    /\ lastEvent.op = "on_update"
    /\ Speed(activeTank) = TURRET_SPEED_STEP
    /\ runStart + runLen * TURRET_SPEED_STEP > TURRET_ANGLE_MAX
    /\ Angle(activeTank) = TURRET_ANGLE_MAX

\* C2: the active tank changes on a SPACE release and on no other event of
\* the running game.  On a SPACE release the release is forwarded to the
\* tank that was active when it arrived, and to that tank only, whose speed
\* becomes 0; then the tank after it in the list becomes active, and that
\* tank's turret is as it was before the event.
C2_TurnOnFireRelease ==
    [][phase = "running" =>
         IF FireRelease(lastEvent')
         THEN /\ activeTank' = Successor(activeTank)
              /\ lastEvent'.forwarded = {activeTank}
              /\ SpeedIn(tanksList', activeTank) = 0
              /\ (activeTank' # activeTank =>
                    tanksList'[activeTank'] = tanksList[activeTank'])
         ELSE activeTank' = activeTank /\ tanksCycle' = tanksCycle]_vars

\* the turn has just passed from a tank that rotated during its turn to
\* another tank
C2_Witness ==
    /\ phase = "running"
    /\ FireRelease(lastEvent)
    /\ activeTank # lastEvent.active
    /\ Angle(lastEvent.active) # TANK_STARTING_ANGLE_DEG
    /\ Speed(lastEvent.active) = 0

\* C3: the active tank is one tank of the list (tank names are distinct),
\* each turn passes to the next tank in insertion order, the first after
\* the last, and after as many turn changes as there are tanks the tank
\* that was active before them is active again.
C3_Circular ==
    Started =>
      LET N == Len(tanksList)
      IN /\ N >= 1
         /\ activeTank \in 1..N
         /\ Cardinality({i \in Tanks : tanksList[i].name = tanksList[activeTank].name}) = 1
         /\ Len(turnLog) \in 1..(N + 1)
         /\ turnLog[Len(turnLog)] = activeTank
         /\ \A j \in 1..(Len(turnLog) - 1) : turnLog[j + 1] = Successor(turnLog[j])
         /\ (Len(turnLog) = N + 1 => turnLog[N + 1] = turnLog[1])

\* three tanks, and three turn changes that started and ended at the
\* second tank
C3_Witness ==
    /\ phase = "running"
    /\ Len(tanksList) = 3
    /\ turnLog = <<2, 3, 1, 2>>
    /\ activeTank = 2

\* C4: a frame update never changes which tank is active, nor the position
\* of the turn cycle.
C4_UpdateKeepsTurn ==
    [][lastEvent'.op = "on_update" =>
         activeTank' = activeTank /\ tanksCycle' = tanksCycle]_vars

\* several frames have been updated in the second tank's turn, and the
\* turret moved
C4_Witness ==
    /\ phase = "running"
    /\ lastEvent.op = "on_update"
    /\ runLen >= 3
    /\ activeTank = 2
    /\ Angle(activeTank) # runStart

\* C5: k updates after a LEFT press with no key event in between, the
\* angle is a0 + min(k*STEP, MAX - a0), where a0 is the angle at the press;
\* k updates after a RIGHT press it is a0 - min(k*STEP, a0 - MIN).
C5_AimRun ==
    phase = "running" /\ runKey.op = "on_key_press" =>
      LET a == Angle(activeTank)
          d == runLen * TURRET_SPEED_STEP
      IN /\ (runKey.key = "LEFT" =>
               a = runStart + Min(d, TURRET_ANGLE_MAX - runStart))
         /\ (runKey.key = "RIGHT" =>
               a = runStart - Min(d, runStart - TURRET_ANGLE_MIN))

\* the scenario of the claim: from 65 (45 and ten updates upwards), RIGHT
\* and 50 updates end at 0
C5_Witness ==
    /\ phase = "running"
    /\ runKey.op = "on_key_press" /\ runKey.key = "RIGHT"
    /\ runStart = 65
    /\ runLen = 50
    /\ Angle(activeTank) = 0

\* C6: after a release of LEFT, RIGHT or SPACE the turret of the tank that
\* was active when the release arrived has speed 0 (until the next key
\* event), and while the active turret's speed is 0 the updates leave its
\* angle where it was after the last key event.
C6_ReleaseStops ==
    phase = "running" =>
      /\ (runKey.op = "on_key_release" /\ runKey.key \in {"LEFT", "RIGHT", "SPACE"}
            => Speed(runKey.active) = 0)
      /\ (Speed(activeTank) = 0 => Angle(activeTank) = runStart)

\* a turret that had rotated was stopped by a LEFT release, and frames were
\* updated since
C6_Witness ==
    /\ phase = "running"
    /\ runKey.op = "on_key_release" /\ runKey.key = "LEFT"
    /\ lastEvent.op = "on_update"
    /\ runLen >= 2
    /\ Angle(activeTank) = runStart
    /\ runStart > TANK_STARTING_ANGLE_DEG

\* C7: a key press sets the active turret's speed to +STEP for LEFT and to
\* -STEP for RIGHT, leaves it as it was for every other key, and never
\* changes the angle; every turret's speed is -STEP, 0 or +STEP in every
\* state.
C7_PressSetsSpeed ==
    /\ [](Started => \A i \in Tanks :
            Speed(i) \in {-TURRET_SPEED_STEP, 0, TURRET_SPEED_STEP})
    /\ [][lastEvent'.op = "on_key_press" =>
            /\ AngleIn(tanksList', activeTank) = Angle(activeTank)
            /\ SpeedIn(tanksList', activeTank) =
                 CASE lastEvent'.key = "LEFT" -> TURRET_SPEED_STEP
                   [] lastEvent'.key = "RIGHT" -> -TURRET_SPEED_STEP
                   [] OTHER -> Speed(activeTank)]_vars

\* a key no handler names was pressed while the turret was rotating
\* downwards, and it still is
C7_Witness ==
    /\ phase = "running"
    /\ lastEvent.op = "on_key_press" /\ lastEvent.key = "UP"
    /\ Speed(activeTank) = -TURRET_SPEED_STEP

\* C8: a frame update calls on_update of the active tank only, whose turret
\* makes one update step, and leaves every other tank as it was; every tank
\* that is not active has the angle it had when its turn ended, and a tank
\* that becomes active has it too.
C8_UpdateActiveOnly ==
    /\ [](phase = "running" => \A i \in Tanks \ {activeTank} :
            Angle(i) = aimAtTurnEnd[i])
    /\ [][lastEvent'.op = "on_update" =>
            /\ lastEvent'.forwarded = {activeTank}
            /\ tanksList'[activeTank].turret_obj =
                 Turret_on_update(tanksList[activeTank].turret_obj)
            /\ \A i \in Tanks \ {activeTank} : tanksList'[i] = tanksList[i]]_vars
    /\ [][phase = "running" /\ activeTank' # activeTank =>
            AngleIn(tanksList', activeTank') = aimAtTurnEnd[activeTank']]_vars

\* three tanks: the first tank's turn has come round again, with the aim it
\* left, after the second tank moved its own
C8_Witness ==
    /\ phase = "running"
    /\ Len(tanksList) = 3
    /\ turnLog = <<1, 2, 3, 1>>
    /\ FireRelease(lastEvent)
    /\ Angle(1) > TANK_STARTING_ANGLE_DEG
    /\ Angle(2) < TANK_STARTING_ANGLE_DEG

\* C9: a key press or release leaves every tank that is not active when it
\* arrives as it was; unless it is the release of ESCAPE, it is forwarded to
\* the active tank and to no other, and the active tank becomes what its own
\* handler makes of it.
C9_KeysToActiveOnly ==
    [][lastEvent'.op \in KeyOps =>
         /\ \A i \in Tanks \ {activeTank} : tanksList'[i] = tanksList[i]
         /\ (lastEvent'.op = "on_key_press" =>
               /\ lastEvent'.forwarded = {activeTank}
               /\ tanksList'[activeTank] =
                    Tank_on_key_press(tanksList[activeTank], lastEvent'.key))
         /\ (lastEvent'.op = "on_key_release" /\ lastEvent'.key # "ESCAPE" =>
               /\ lastEvent'.forwarded = {activeTank}
               /\ tanksList'[activeTank] =
                    Tank_on_key_release(tanksList[activeTank], lastEvent'.key))]_vars

\* LEFT was pressed in the second of three tanks' turn: that turret rotates,
\* the others stand
C9_Witness ==
    /\ phase = "running"
    /\ Len(tanksList) = 3
    /\ lastEvent.op = "on_key_press" /\ lastEvent.key = "LEFT"
    /\ lastEvent.active = 2
    /\ Speed(2) = TURRET_SPEED_STEP
    /\ Speed(1) = 0 /\ Speed(3) = 0

\* C10 as claimed: every ESCAPE key event, press or release, ends the game
\* without being forwarded to a tank, changing a turret or passing the
\* turn, and no event is processed once the game has ended.
C10_QuitOnAnyEscapeEvent ==
    [][/\ phase # "exited"
       /\ (lastEvent'.op \in KeyOps /\ lastEvent'.key = "ESCAPE" =>
             /\ phase' = "exited"
             /\ lastEvent'.forwarded = {}
             /\ tanksList' = tanksList
             /\ activeTank' = activeTank /\ tanksCycle' = tanksCycle)]_vars

\* C10 amended: the release of ESCAPE ends the game without being forwarded
\* to a tank, changing a turret or passing the turn, nothing else ends it,
\* and no event is processed once the game has ended.  A press of ESCAPE
\* does not end the game: it is forwarded to the active tank, and changes
\* no turret and not the turn.
C10_QuitOnEscapeRelease ==
    [][/\ phase # "exited"
       /\ (phase' = "exited" <=>
             lastEvent'.op = "on_key_release" /\ lastEvent'.key = "ESCAPE")
       /\ (lastEvent'.op \in KeyOps /\ lastEvent'.key = "ESCAPE" =>
             /\ lastEvent'.forwarded =
                  (IF lastEvent'.op = "on_key_press" THEN {activeTank} ELSE {})
             /\ tanksList' = tanksList
             /\ activeTank' = activeTank /\ tanksCycle' = tanksCycle)]_vars

\* the game has ended on an ESCAPE release in the second tank's turn, with
\* that tank's turret still at its speed
C10_Witness ==
    /\ phase = "exited"
    /\ lastEvent.op = "on_key_release" /\ lastEvent.key = "ESCAPE"
    /\ lastEvent.forwarded = {}
    /\ activeTank = 2
    /\ Speed(activeTank) = TURRET_SPEED_STEP

\* the state setup has left, and the arguments it was called with
AfterSetup(n) == lastEvent.op = "setup" /\ setupCall.num_tanks = n

\* C11 as claimed: setup with 0 tanks is rejected with an InvalidTurnOrder
\* error.
C11_EmptyRaisesInvalidTurnOrder ==
    AfterSetup(0) => phase = "crashed" /\ error = "InvalidTurnOrder"

\* C11 amended: setup with 0 tanks is rejected with the StopIteration that
\* next() of the cycle over the empty list raises: setup does not complete,
\* the game does not run and no tank is active.
C11_EmptyRaisesStopIteration ==
    AfterSetup(0) =>
      /\ phase = "crashed"
      /\ error = "StopIteration"
      /\ tanksList = <<>>
      /\ activeTank = 0

\* setup was called with 0 tanks and raised
C11_Witness ==
    /\ AfterSetup(0)
    /\ setupCall.keywords = TankInitParams
    /\ error = "StopIteration"

\* the elements of a sequence
Range(seq) == {seq[j] : j \in 1..Len(seq)}

\* how often x is in a sequence
Count(seq, x) == Cardinality({j \in 1..Len(seq) : seq[j] = x})

\* the sprites registered with the physics engine for x
Bodies(pe, x) == {r \in pe.sprites : r.sprite = x}

\* C12: add_bullet appends the bullet to the bullet list and registers it
\* with the physics engine, once each (as a "bullet", with the impulse
\* (power, 0) applied), and changes nothing else of either; a bullet/ground
\* collision reported in a physics step calls the bullet's detonate() and
\* removes it from the bullet list and the engine: the list is shorter by
\* one per reported bullet, and the other bullets stay, in their order.
C12_AddAndDetonate ==
    [][phase = "running" =>
         /\ (lastEvent'.op = "add_bullet" =>
               \E b \in Bullets :
                  /\ Count(bullets_list, b) = 0 /\ Bodies(physics_engine, b) = {}
                  /\ bullets_list' = Append(bullets_list, b)
                  /\ Cardinality(Bodies(physics_engine', b)) = 1
                  /\ \E power \in Powers :
                        physics_engine'.sprites = physics_engine.sprites \cup
                          {[sprite |-> b, collision_type |-> "bullet",
                            impulse |-> power]}
                  /\ detonated' = detonated)
         /\ (lastEvent'.op = "on_update" =>
               /\ detonated' = detonated \cup reported'
               /\ bullets_list' = SelectSeq(bullets_list, LAMBDA x : x \notin reported')
               /\ Len(bullets_list') = Len(bullets_list) - Cardinality(reported')
               /\ physics_engine'.sprites =
                    {r \in physics_engine.sprites : r.sprite \notin reported'})]_vars

\* the first of two bullets added with power 100 has hit the ground and is
\* gone, the second is still in the list and in the engine
C12_Witness ==
    /\ phase = "running"
    /\ lastEvent.op = "on_update"
    /\ reported = {<<"bullet", 1>>}
    /\ detonated = {<<"bullet", 1>>}
    /\ bullets_list = << <<"bullet", 2>> >>
    /\ Bodies(physics_engine, <<"bullet", 2>>) =
         {[sprite |-> <<"bullet", 2>>, collision_type |-> "bullet", impulse |-> 100]}
    /\ Bodies(physics_engine, <<"bullet", 1>>) = {}

\* C13 as claimed: every fire action, the release of SPACE while the game
\* runs, creates a projectile that is then in the bullet list and
\* registered with the physics engine.
C13_FireCreatesProjectile ==
    [][phase = "running" /\ FireRelease(lastEvent') =>
         /\ Len(bullets_list') = Len(bullets_list) + 1
         /\ \E b \in Bullets :
               /\ bullets_list' = Append(bullets_list, b)
               /\ Cardinality(Bodies(physics_engine', b)) = 1]_vars

\* C14: a bullet in the bullet list and registered with the physics engine
\* stays in both, at its place among the bullets that stay, through every
\* event except a physics step that reports its collision with the ground:
\* key events, turn changes, other bullets being added, draws and steps
\* without its collision do not remove it; and the two collections always
\* hold the same bullets.
C14_StaysUntilCollision ==
    /\ [](phase = "running" =>
            /\ Range(bullets_list) = Simulated
            /\ \A b \in Simulated : Count(bullets_list, b) = 1)
    /\ [][phase = "running" /\ phase' = "running" =>
            \A b \in Range(bullets_list) :
               \/ /\ b \in Range(bullets_list')
                  /\ Bodies(physics_engine', b) = Bodies(physics_engine, b)
                  /\ b \notin detonated'
               \/ /\ lastEvent'.op = "on_update"
                  /\ b \in reported']_vars

\* the release of SPACE has just passed the turn to the next tank, and the
\* bullet added before it is still in the list and in the engine
C14_Witness ==
    /\ phase = "running"
    /\ FireRelease(lastEvent)
    /\ activeTank # lastEvent.active
    /\ bullets_list = << <<"bullet", 1>> >>
    /\ Simulated = {<<"bullet", 1>>}
    /\ detonated = {}

\* C15 as claimed: setup(N) with N >= 1 completes, whatever the game was
\* started with as written: there are N tanks named Player 1 .. Player N,
\* each turret at TANK_STARTING_ANGLE_DEG with speed 0, the first tank is
\* the active one, the bullet list is empty and the ground is registered
\* with the physics engine.
C15_SetupCompletes ==
    lastEvent.op = "setup" /\ setupCall.num_tanks >= 1 =>
       /\ phase = "running"
       /\ error = "none"
       /\ Len(tanksList) = setupCall.num_tanks
       /\ \A i \in 1..Len(tanksList) :
             /\ tanksList[i].name = <<"Player", i>>
             /\ Angle(i) = TANK_STARTING_ANGLE_DEG
             /\ Speed(i) = 0
       /\ activeTank = 1
       /\ bullets_list = <<>>
       /\ Bodies(physics_engine, Ground) # {}

\* C16: a frame update calls the active tank's on_update and then the
\* physics engine's step, each exactly once and in that order; the tanks
\* after the frame are those the tank update alone produces, so the physics
\* step, with or without collisions, changes no turret, and it changes
\* neither the active tank nor the turn cursor.
C16_TankUpdateThenStep ==
    [][phase = "running" /\ lastEvent'.op = "on_update" =>
         /\ callTrace' = <<"activeTank.on_update", "physics_engine.step">>
         /\ tanksList' = [tanksList EXCEPT ![activeTank] = Tank_on_update(@)]
         /\ activeTank' = activeTank
         /\ tanksCycle' = tanksCycle]_vars

\* a frame in which the active turret, being rotated, has moved and the
\* physics step has handled a collision
C16_Witness ==
    /\ phase = "running"
    /\ lastEvent.op = "on_update"
    /\ callTrace = <<"activeTank.on_update", "physics_engine.step">>
    /\ reported # {}
    /\ Speed(activeTank) = TURRET_SPEED_STEP
    /\ Angle(activeTank) = TANK_STARTING_ANGLE_DEG + TURRET_SPEED_STEP
    /\ \A i \in Tanks \ {activeTank} : Angle(i) = TANK_STARTING_ANGLE_DEG

\* C17 as claimed: rendering the HUD succeeds and shows the active tank's
\* turret angle, name, power and weapon.
C17_HudShowsActiveTank ==
    lastEvent.op = "on_draw" =>
       /\ phase = "running"
       /\ error = "none"
       /\ Len(hud) = Len(HudReads)
       /\ \A j \in 1..Len(hud) : hud[j][1] = HudReads[j]
       /\ hud[1][2] = Angle(activeTank)
       /\ hud[3][2] = tanksList[activeTank].name

\* C18: while the game runs, every tank that is not the active one has
\* turret speed 0: the fire release stops the outgoing tank's turret before
\* the turn passes, also when a direction key is still held; and the tank
\* that becomes active has speed 0 and keeps its angle through the frames
\* that follow, until a key is pressed.
C18_InactiveAtRest ==
    phase = "running" =>
      /\ \A i \in Tanks \ {activeTank} : Speed(i) = 0
      /\ (FireRelease(runKey) =>
            /\ Speed(activeTank) = 0
            /\ Angle(activeTank) = runStart)

\* LEFT was pressed and held, the turret rotated, SPACE was released with
\* LEFT still down, and frames were updated since: the outgoing tank stays
\* where it was and the incoming one is still at its starting angle
C18_Witness ==
    /\ phase = "running"
    /\ FireRelease(runKey)
    /\ "LEFT" \in held
    /\ lastEvent.op = "on_update"
    /\ runLen >= 1
    /\ activeTank # runKey.active
    /\ Angle(runKey.active) > TANK_STARTING_ANGLE_DEG
    /\ Speed(runKey.active) = 0
    /\ Angle(activeTank) = TANK_STARTING_ANGLE_DEG

\* C19: the keys still held play no part in the turret's speed.  A press
\* of LEFT or RIGHT sets the active turret's speed to that key's speed
\* whatever other direction key is down, and the release of LEFT or RIGHT
\* sets it to 0 even when the opposite key is still held; the speed stays
\* so through the frames until the next key event.
C19_LastKeyEventDecides ==
    /\ [](phase = "running" /\ runKey.op \in KeyOps /\ runKey.key \in DirectionKeys =>
            Speed(runKey.active) =
               IF runKey.op = "on_key_release" THEN 0
               ELSE IF runKey.key = "LEFT" THEN TURRET_SPEED_STEP
               ELSE -TURRET_SPEED_STEP)
    /\ [][phase = "running" /\ lastEvent'.op \in KeyOps
            /\ lastEvent'.key \in DirectionKeys /\ held \ {lastEvent'.key} # {} =>
               SpeedIn(tanksList', activeTank') =
                  IF lastEvent'.op = "on_key_release" THEN 0
                  ELSE IF lastEvent'.key = "LEFT" THEN TURRET_SPEED_STEP
                  ELSE -TURRET_SPEED_STEP]_vars

\* RIGHT was pressed while LEFT was down, then LEFT was released with
\* RIGHT still held: the turret has stopped, and stays so over a frame
C19_Witness ==
    /\ phase = "running"
    /\ runKey.op = "on_key_release" /\ runKey.key = "LEFT"
    /\ held = {"RIGHT"}
    /\ lastEvent.op = "on_update"
    /\ Speed(activeTank) = 0
    /\ Angle(activeTank) = runStart
    /\ runStart # TANK_STARTING_ANGLE_DEG

====
